---- MODULE Spec2Model ----
(***************************************************************************)
(* Composable traversals (druid/src/optics/traversal/traversal.rs).        *)
(*                                                                         *)
(* A traversal is VecTraversal or Then(left, right).  with / with_mut      *)
(* return a boxed lazy iterator; the model keeps each iterator as the tree *)
(* of adapters the code builds (slice iterator + map, flatten) and a pull  *)
(* is one call of next() on the outermost box.  The source is a nested     *)
(* sequence; a reference handed to a closure is the path of the target in  *)
(* the source.                                                             *)
(***************************************************************************)
EXTENDS Integers, Sequences, FiniteSets, TLC

\* ---------------------------------------------------------------- bounds
\* Longest sequence at any nesting level of a source.
MaxLen == 3
\* Largest source: number of nodes (sequences and leaves) below the root.
MaxSize == 8
\* Calls of next() made after every iterator has reported the end.
MaxExtraPulls == 1
\* Invocations of with / with_mut on the same traversal value.
MaxInvocations == 2
\* Largest source (in nodes below the root) on which the traversal value is
\* invoked again after its first use.
MaxAgainSize == 5

\* Nesting depths of the sources: Vec<u8>, Vec<Vec<u8>>, Vec<Vec<Vec<u8>>>.
Depths == {1, 2, 3}

RECURSIVE At(_, _)
RECURSIVE Put(_, _, _)
RECURSIVE Size(_, _)
RECURSIVE Trees(_, _)
RECURSIVE Seqs(_, _, _)
RECURSIVE Label(_, _, _)
RECURSIVE LeafPaths(_, _, _)
RECURSIVE TraversalWith(_, _, _)
RECURSIVE TraversalWithMut(_, _, _)
RECURSIVE IterNext(_, _)
RECURSIVE FlattenNext(_, _)

\* ------------------------------------------------------------ source data
\* The target a reference designates: the value at `path` (1-based indices,
\* outermost first) inside the source d.
At(d, path) ==
  IF path = <<>> THEN d ELSE At(d[Head(path)], Tail(path))

\* A write through a mutable reference: d with the value at `path` replaced.
Put_Truncate(d, path, v) ==
  IF path = <<>> THEN v
  ELSE IF Len(path) = 1 THEN [j \in 1..Head(path) |-> IF j = Head(path) THEN v ELSE d[j]]
  ELSE [d EXCEPT ![Head(path)] = Put(d[Head(path)], Tail(path), v)]

Put(d, path, v) ==
  IF path = <<>> THEN v
  ELSE [d EXCEPT ![Head(path)] = Put(d[Head(path)], Tail(path), v)]

\* Number of nodes (sequences and leaves) of a value of depth d, itself
\* included.
Size(s, d) ==
  IF d = 0 THEN 1
  ELSE LET RECURSIVE Sum(_)
           Sum(i) == IF i = 0 THEN 0 ELSE Size(s[i], d - 1) + Sum(i - 1)
       IN 1 + Sum(Len(s))

\* Shapes: all values of depth d with at most n nodes (a leaf is the
\* placeholder 0), and all sequences of at most k values of depth d - 1 with
\* at most n nodes in total.
Trees(d, n) ==
  IF n < 1 THEN {} ELSE IF d = 0 THEN {0} ELSE Seqs(d, n - 1, MaxLen)

Seqs(d, n, k) ==
  {<<>>} \cup
  IF k = 0 THEN {}
  ELSE UNION { { <<t>> \o r : r \in Seqs(d, n - Size(t, d - 1), k - 1) }
               : t \in Trees(d - 1, n) }

\* The u8 stored at each leaf: its 0-based indices read as digits, as in the
\* tests' [[0, 1, 2], [10, 11, 12]] (base 6 keeps three levels inside u8).
Label(s, d, prefix) ==
  IF d = 0 THEN prefix
  ELSE [i \in 1..Len(s) |-> Label(s[i], d - 1, prefix * 6 + (i - 1))]

\* The sources of depth d the model is run on.
Sources(d) == { Label(s, d, 0) : s \in Seqs(d, MaxSize, MaxLen) }

\* Paths of the leaves of s (depth d) in depth-first order, outer index
\* ascending, then inner index ascending.
LeafPaths(s, d, prefix) ==
  IF d = 0 THEN <<prefix>>
  ELSE LET RECURSIVE Cat(_)
           Cat(i) == IF i = 0 THEN <<>>
                     ELSE Cat(i - 1) \o LeafPaths(s[i], d - 1, Append(prefix, i))
       IN Cat(Len(s))

\* ------------------------------------------------------------ traversals
\* pub struct VecTraversal: a unit struct.
VecTraversal == [tag |-> "VecTraversal"]

\* Then::new(left, right): the fields left and right (the marker has no data).
ThenNew(left, right) == [tag |-> "Then", left |-> left, right |-> right]

\* The traversal values run on a source of depth d.  For depth 3 both
\* associations are run side by side, on copies of the same source.
Travs(d) ==
  CASE d = 1 -> <<VecTraversal>>
    [] d = 2 -> <<ThenNew(VecTraversal, VecTraversal)>>
    [] d = 3 -> <<ThenNew(ThenNew(VecTraversal, VecTraversal), VecTraversal),
                  ThenNew(VecTraversal, ThenNew(VecTraversal, VecTraversal))>>

\* ------------------------------------------------------------ projections
\* The caller's f.  For with: the identity and the tests' u8_t2_plus_1.
\* For with_mut: the tests' u8_t2_plus_1_mut (returns unit, written <<>>)
\* and plus1_get (adds 1 in place and returns the new value).
ProjsWith == {"id", "plus1"}
ProjsMut == {"plus1_mut", "plus1_get"}

\* What f returns for a target holding x.
ProjResult(proj, x) ==
  CASE proj = "id" -> x
    [] proj = "plus1" -> (x + 1) % 256
    [] proj = "plus1_mut" -> <<>>
    [] proj = "plus1_get" -> (x + 1) % 256

\* What the target holds after f ran on it through a mutable reference.
ProjStore(proj, x) ==
  IF proj \in ProjsMut THEN (x + 1) % 256 ELSE x

\* The caller's f as a closure value, and the closures
\* `move |b| self.right.with(b, f)` and `move |b| self.right.with_mut(b, f)`.
LeafFn(p) == [tag |-> "F", proj |-> p]
RightWith(right, f) == [tag |-> "RightWith", right |-> right, f |-> f]
RightWithMut(right, f) == [tag |-> "RightWithMut", right |-> right, f |-> f]

\* -------------------------------------------------------------- iterators
\* data.iter().map(f) and data.iter_mut().map(f) over the Vec at `path`:
\* the slice iterator's position and the closure.
MapIter(path, f) == [tag |-> "Iter", path |-> path, pos |-> 0, f |-> f]
MapIterMut(path, f) == [tag |-> "IterMut", path |-> path, pos |-> 0, f |-> f]

\* iter.flatten(): the fused inner iterator (<<>> once it returned None) and
\* the front and back inner iterators, absent at construction.
Flatten(iter) ==
  [tag |-> "Flatten", iter |-> <<iter>>, frontiter |-> <<>>, backiter |-> <<>>]

\* VecTraversal::with
VecWith_SkipFirst(path, f) == [MapIter(path, f) EXCEPT !.pos = 1]

VecWith(path, f) == MapIter(path, f)

\* VecTraversal::with_mut
VecWithMut_Shared(path, f) == MapIter(path, f)

VecWithMut(path, f) == MapIterMut(path, f)

\* Then::with
ThenWith(self, path, f) ==
  Flatten(TraversalWith(self.left, path, RightWith(self.right, f)))

\* Then::with_mut
ThenWithMut_SharedRight(self, path, f) ==
  Flatten(TraversalWithMut(self.left, path, RightWith(self.right, f)))

ThenWithMut(self, path, f) ==
  Flatten(TraversalWithMut(self.left, path, RightWithMut(self.right, f)))

\* Traversal::with and Traversal::with_mut, dispatched on the implementor.
TraversalWith(trav, path, f) ==
  IF trav.tag = "VecTraversal" THEN VecWith(path, f) ELSE ThenWith(trav, path, f)

TraversalWithMut(trav, path, f) ==
  IF trav.tag = "VecTraversal" THEN VecWithMut(path, f)
  ELSE ThenWithMut(trav, path, f)

\* The result of next(): the iterator afterwards, the source afterwards, the
\* item (<<>> for None, <<x>> for Some(x)) and the targets f was applied to.
Yield(iter, s, item, cs) == [it |-> iter, src |-> s, item |-> item, calls |-> cs]

\* One call of a map closure on the target at `path`, handed out by iter()
\* (mut = FALSE) or iter_mut() (mut = TRUE).  The caller's f reads the target
\* and, through a mutable reference, writes it; a composition closure builds
\* right's iterator over the target and calls nothing.
CallFn_AlwaysWrite(f, mut, path, s) ==
  CASE f.tag = "F" ->
         [item |-> ProjResult(f.proj, At(s, path)),
          src |-> Put(s, path, ProjResult(f.proj, At(s, path))),
          calls |-> <<path>>]
    [] f.tag = "RightWith" ->
         [item |-> TraversalWith(f.right, path, f.f), src |-> s, calls |-> <<>>]
    [] f.tag = "RightWithMut" ->
         [item |-> TraversalWithMut(f.right, path, f.f), src |-> s, calls |-> <<>>]

CallFn_EagerFirst(f, mut, path, s) ==
  CASE f.tag = "F" ->
         [item |-> ProjResult(f.proj, At(s, path)),
          src |-> IF mut THEN Put(s, path, ProjStore(f.proj, At(s, path))) ELSE s,
          calls |-> <<path>>]
    [] f.tag = "RightWith" ->
         [item |-> TraversalWith(f.right, path, f.f), src |-> s, calls |-> <<>>]
    [] f.tag = "RightWithMut" ->
         LET r == IterNext(TraversalWithMut(f.right, path, f.f), s)
         IN [item |-> r.it, src |-> r.src, calls |-> r.calls]

CallFn(f, mut, path, s) ==
  CASE f.tag = "F" ->
         [item |-> ProjResult(f.proj, At(s, path)),
          src |-> IF mut THEN Put(s, path, ProjStore(f.proj, At(s, path))) ELSE s,
          calls |-> <<path>>]
    [] f.tag = "RightWith" ->
         [item |-> TraversalWith(f.right, path, f.f), src |-> s, calls |-> <<>>]
    [] f.tag = "RightWithMut" ->
         [item |-> TraversalWithMut(f.right, path, f.f), src |-> s, calls |-> <<>>]

\* Map::next over slice::Iter / IterMut: None at the end of the Vec, else
\* advance and yield f(element).
MapNext_OffByOne(iter, s) ==
  IF iter.pos > Len(At(s, iter.path))
  THEN Yield(iter, s, <<>>, <<>>)
  ELSE IF iter.pos = Len(At(s, iter.path))
  THEN IF iter.f.tag = "F"
       THEN Yield([iter EXCEPT !.pos = @ + 1], s, <<0>>, <<>>)
       ELSE Yield(iter, s, <<>>, <<>>)
  ELSE LET r == CallFn(iter.f, iter.tag = "IterMut",
                       Append(iter.path, iter.pos + 1), s)
       IN Yield([iter EXCEPT !.pos = @ + 1], r.src, <<r.item>>, r.calls)

MapNext_Twice(iter, s) ==
  IF iter.pos >= Len(At(s, iter.path))
  THEN Yield(iter, s, <<>>, <<>>)
  ELSE LET r == CallFn(iter.f, iter.tag = "IterMut",
                       Append(iter.path, iter.pos + 1), s)
       IN Yield([iter EXCEPT !.pos = @ + 1], r.src, <<r.item>>, r.calls \o r.calls)

MapNext_Wrap(iter, s) ==
  IF iter.pos >= Len(At(s, iter.path))
  THEN Yield([iter EXCEPT !.pos = 0], s, <<>>, <<>>)
  ELSE LET r == CallFn(iter.f, iter.tag = "IterMut",
                       Append(iter.path, iter.pos + 1), s)
       IN Yield([iter EXCEPT !.pos = @ + 1], r.src, <<r.item>>, r.calls)

MapNext(iter, s) ==
  IF iter.pos >= Len(At(s, iter.path))
  THEN Yield(iter, s, <<>>, <<>>)
  ELSE LET r == CallFn(iter.f, iter.tag = "IterMut",
                       Append(iter.path, iter.pos + 1), s)
       IN Yield([iter EXCEPT !.pos = @ + 1], r.src, <<r.item>>, r.calls)

\* Flatten::next, the front iterator had an item: keep the advanced front
\* iterator and yield the item.
FlattenFront_TakeOne(iter, front) ==
  Yield([iter EXCEPT !.frontiter = <<>>], front.src, front.item, front.calls)

FlattenFront(iter, front) ==
  Yield([iter EXCEPT !.frontiter = <<front.it>>], front.src, front.item, front.calls)

\* Flatten::next, the back iterator's turn, once the fused outer iterator is
\* exhausted: None when it is absent, else its next item (cleared on None).
FlattenBack(iter, s) ==
  IF iter.backiter = <<>> THEN Yield(iter, s, <<>>, <<>>)
  ELSE LET b == IterNext(iter.backiter[1], s)
       IN Yield([iter EXCEPT !.backiter = IF b.item = <<>> THEN <<>> ELSE <<b.it>>],
                b.src, b.item, b.calls)

\* Flatten::next, no front iterator: ask the fused outer iterator for the next
\* inner iterator, make it the front iterator and loop; when the outer one is
\* exhausted (it stays so: Fuse) fall back to the back iterator.
FlattenAdvance_NoLoop(iter, s) ==
  IF iter.iter = <<>> THEN FlattenBack(iter, s)
  ELSE LET r == IterNext(iter.iter[1], s)
           rest == IF r.item = <<>>
                   THEN FlattenBack([iter EXCEPT !.iter = <<>>], r.src)
                   ELSE LET n == IterNext(r.item[1], r.src)
                        IN Yield([iter EXCEPT !.iter = <<r.it>>,
                                              !.frontiter = <<n.it>>],
                                 n.src, n.item, n.calls)
       IN [rest EXCEPT !.calls = r.calls \o @]

FlattenAdvance(iter, s) ==
  IF iter.iter = <<>> THEN FlattenBack(iter, s)
  ELSE LET r == IterNext(iter.iter[1], s)
           rest == IF r.item = <<>>
                   THEN FlattenBack([iter EXCEPT !.iter = <<>>], r.src)
                   ELSE FlattenNext([iter EXCEPT !.iter = <<r.it>>,
                                                 !.frontiter = <<r.item[1]>>], r.src)
       IN [rest EXCEPT !.calls = r.calls \o @]

\* Flatten::next: yield from the front iterator while it has items; when it
\* is absent or exhausted, clear it and advance the outer iterator.
FlattenNext_StopAtEmpty(iter, s) ==
  IF iter.frontiter = <<>> THEN FlattenAdvance(iter, s)
  ELSE LET front == IterNext(iter.frontiter[1], s)
       IN IF front.item # <<>> THEN FlattenFront(iter, front)
          ELSE Yield([iter EXCEPT !.frontiter = <<>>], front.src, <<>>, front.calls)

FlattenNext(iter, s) ==
  IF iter.frontiter = <<>> THEN FlattenAdvance(iter, s)
  ELSE LET front == IterNext(iter.frontiter[1], s)
       IN IF front.item # <<>> THEN FlattenFront(iter, front)
          ELSE LET rest == FlattenAdvance([iter EXCEPT !.frontiter = <<>>], front.src)
               IN [rest EXCEPT !.calls = front.calls \o @]

\* Box<dyn Iterator>::next: dispatch on the adapter.
IterNext(iter, s) ==
  IF iter.tag = "Flatten" THEN FlattenNext(iter, s) ELSE MapNext(iter, s)

\* ---------------------------------------------------------- state machine
VARIABLES
  depth,        \* nesting depth of the source
  data0,        \* the source as the caller built it
  travs,        \* the traversal values under test (one, or both associations)
  phase,        \* "idle": no iterator alive; "iter": the caller holds one
  mode,         \* "none", "with" or "with_mut": the operation last invoked
  proj,         \* the projection passed to it
  invocations,  \* with / with_mut calls made so far
  start,        \* per traversal: the source when the operation was invoked
  src,          \* per traversal: the source now
  it,           \* per traversal: <<iterator>> while alive, else <<>>
  out,          \* per traversal: the results next() has returned
  calls,        \* per traversal: the targets f was applied to, in call order
  ended,        \* per traversal: the last next() returned None
  pulls,        \* next() calls made on the current iterator
  extra         \* of these, calls made after every iterator had ended

vars == <<depth, data0, travs, phase, mode, proj, invocations, start, src, it,
          out, calls, ended, pulls, extra>>

Runs == DOMAIN travs

Init ==
  /\ depth \in Depths
  /\ data0 \in Sources(depth)
  /\ travs = Travs(depth)
  /\ phase = "idle"
  /\ mode = "none"
  /\ proj = "none"
  /\ invocations = 0
  /\ start = [i \in DOMAIN Travs(depth) |-> data0]
  /\ src = [i \in DOMAIN Travs(depth) |-> data0]
  /\ it = [i \in DOMAIN Travs(depth) |-> <<>>]
  /\ out = [i \in DOMAIN Travs(depth) |-> <<>>]
  /\ calls = [i \in DOMAIN Travs(depth) |-> <<>>]
  /\ ended = [i \in DOMAIN Travs(depth) |-> FALSE]
  /\ pulls = 0
  /\ extra = 0

\* The bookkeeping of a new invocation: nothing pulled yet.  with and
\* with_mut take &self: the traversal value is left as it is.
Fresh_Stateful ==
  /\ phase' = "iter"
  /\ invocations' = invocations + 1
  /\ start' = src
  /\ out' = [i \in Runs |-> <<>>]
  /\ calls' = [i \in Runs |-> <<>>]
  /\ ended' = [i \in Runs |-> FALSE]
  /\ pulls' = 0
  /\ extra' = 0
  /\ travs' = [i \in Runs |-> IF travs[i].tag = "Then" THEN travs[i].right
                               ELSE travs[i]]
  /\ UNCHANGED <<depth, data0, src>>

Fresh ==
  /\ phase' = "iter"
  /\ invocations' = invocations + 1
  /\ start' = src
  /\ out' = [i \in Runs |-> <<>>]
  /\ calls' = [i \in Runs |-> <<>>]
  /\ ended' = [i \in Runs |-> FALSE]
  /\ pulls' = 0
  /\ extra' = 0
  /\ UNCHANGED <<depth, data0, travs, src>>

\* The caller may invoke the traversal: for the first time, or again (on the
\* smaller sources) once the previous iterator is dropped.
MayInvoke ==
  /\ phase = "idle"
  /\ \/ invocations = 0
     \/ /\ invocations < MaxInvocations
        /\ Size(data0, depth) - 1 <= MaxAgainSize

\* The caller invokes trav.with(&source, f).
With(p) ==
  /\ MayInvoke
  /\ mode' = "with"
  /\ proj' = p
  /\ it' = [i \in Runs |-> <<TraversalWith(travs[i], <<>>, LeafFn(p))>>]
  /\ Fresh

\* The caller invokes trav.with_mut(&mut source, f).
WithMut(p) ==
  /\ MayInvoke
  /\ mode' = "with_mut"
  /\ proj' = p
  /\ it' = [i \in Runs |-> <<TraversalWithMut(travs[i], <<>>, LeafFn(p))>>]
  /\ Fresh

\* The caller calls next() on the returned iterator (on each association's
\* iterator in step).
Pull ==
  /\ phase = "iter"
  /\ (\E i \in Runs : ~ended[i]) \/ extra < MaxExtraPulls
  /\ \E r \in { [i \in Runs |-> IterNext(it[i][1], src[i])] } :
        /\ it' = [i \in Runs |-> <<r[i].it>>]
        /\ src' = [i \in Runs |-> r[i].src]
        /\ out' = [i \in Runs |-> out[i] \o r[i].item]
        /\ calls' = [i \in Runs |-> calls[i] \o r[i].calls]
        /\ ended' = [i \in Runs |-> r[i].item = <<>>]
  /\ pulls' = pulls + 1
  /\ extra' = IF \A i \in Runs : ended[i] THEN extra + 1 ELSE extra
  /\ UNCHANGED <<depth, data0, travs, phase, mode, proj, invocations, start>>

\* The caller drops the iterator (after any number of pulls): the borrow of
\* the source ends and the source stays as the pulls left it.  The record of
\* the finished invocation is forgotten.
Drop ==
  /\ phase = "iter"
  /\ phase' = "idle"
  /\ mode' = "none"
  /\ proj' = "none"
  /\ it' = [i \in Runs |-> <<>>]
  /\ start' = src
  /\ out' = [i \in Runs |-> <<>>]
  /\ calls' = [i \in Runs |-> <<>>]
  /\ ended' = [i \in Runs |-> FALSE]
  /\ pulls' = 0
  /\ extra' = 0
  /\ UNCHANGED <<depth, data0, travs, invocations, src>>

Next ==
  \/ \E p \in ProjsWith : With(p)
  \/ \E p \in ProjsMut : WithMut(p)
  \/ Pull
  \/ Drop

Spec == Init /\ [][Next]_vars

\* ------------------------------------------------- vocabulary of the claims
RECURSIVE Collect(_, _)
RECURSIVE ApplyTo(_, _, _, _)
RECURSIVE ConcatAll(_)

Min(a, b) == IF a < b THEN a ELSE b

\* An iterator run to its end on src: the results, the targets f was
\* applied to, and the source afterwards.
Collect(iter, s) ==
  LET r == IterNext(iter, s)
  IN IF r.item = <<>> THEN [out |-> <<>>, calls |-> r.calls, src |-> r.src]
     ELSE LET rest == Collect(r.it, r.src)
          IN [out |-> r.item \o rest.out, calls |-> r.calls \o rest.calls,
              src |-> rest.src]

\* s with the projection's store applied once to each of the first k of paths.
ApplyTo(s, paths, k, p) ==
  IF k = 0 THEN s
  ELSE LET t == ApplyTo(s, paths, k - 1, p)
       IN Put(t, paths[k], ProjStore(p, At(t, paths[k])))

ConcatAll(ss) == IF ss = <<>> THEN <<>> ELSE Head(ss) \o ConcatAll(Tail(ss))

\* The leaves of run i's source at invocation, depth-first, and the number
\* of results run i can have produced after the pulls made so far.
Leaves(i) == LeafPaths(start[i], depth, <<>>)
Taken(i) == Min(pulls, Len(Leaves(i)))

\* What f returns for each of the first k leaves of run i, in order.
Results(i, k) ==
  LET leaves == Leaves(i)
  IN [j \in 1..k |-> ProjResult(proj, At(start[i], leaves[j]))]

\* ------------------------------------------------------------------ claims
\* C1: for Then(VecTraversal, VecTraversal).with_mut over any nested
\* sequence with N leaves, after exactly k <= N results have been pulled
\* (and the iterator is then left alone), exactly the first k leaves in
\* depth-first order have had the projection applied, once each, and every
\* later leaf holds its original value.
C1_PartialMutation ==
  (depth = 2 /\ mode = "with_mut") =>
    LET leaves == Leaves(1)
        k == Min(pulls, Len(leaves))
    IN /\ Len(out[1]) = k
       /\ calls[1] = SubSeq(leaves, 1, k)
       /\ src[1] = ApplyTo(start[1], leaves, k, proj)

\* C1 witness: inner sequences of lengths 1, 0 and 2; two results pulled,
\* across the empty inner sequence; the last leaf is untouched.
C1_Witness ==
  /\ depth = 2 /\ mode = "with_mut" /\ proj = "plus1_mut"
  /\ start[1] = << <<0>>, <<>>, <<12, 13>> >>
  /\ pulls = 2
  /\ out[1] = << <<>>, <<>> >>
  /\ src[1] = << <<1>>, <<>>, <<13, 13>> >>

\* C2: for VecTraversal.with_mut over a sequence of length n, the i-th pull
\* applies the projection to element i in place and yields its return value:
\* after k <= n pulls elements 0..k-1 are mutated once each, elements k..n-1
\* are unchanged, and the k results are the projection's return values for
\* elements 0..k-1 in index order.
C2_LeafMutateOnPull ==
  (depth = 1 /\ mode = "with_mut") =>
    LET k == Min(pulls, Len(start[1]))
    IN /\ calls[1] = [j \in 1..k |-> <<j>>]
       /\ out[1] = [j \in 1..k |-> ProjResult(proj, start[1][j])]
       /\ Len(src[1]) = Len(start[1])
       /\ \A j \in 1..Len(start[1]) :
            src[1][j] = IF j <= k THEN ProjStore(proj, start[1][j])
                        ELSE start[1][j]

\* C2 witness: the test's [0, 1, 2] with one result pulled: source [1, 1, 2],
\* result so far [1].
C2_Witness ==
  /\ depth = 1 /\ mode = "with_mut" /\ proj = "plus1_get"
  /\ start[1] = <<0, 1, 2>>
  /\ pulls = 1
  /\ out[1] = <<1>>
  /\ src[1] = <<1, 1, 2>>

\* C3: fully consuming Then(left, right).with(a, f) yields the concatenation,
\* in left's visiting order over the targets b of a, of right.with(b, f); for
\* nested sequences this is f applied to every leaf, outer index ascending
\* and inner index ascending within each outer element.
C3_ComposedWithOrder ==
  (depth >= 2 /\ mode = "with") =>
    \A i \in Runs :
      ended[i] =>
        LET targets == Collect(TraversalWith(travs[i].left, <<>>, LeafFn("id")),
                               start[i]).calls
            parts == [n \in 1..Len(targets) |->
                        Collect(TraversalWith(travs[i].right, targets[n], LeafFn(proj)),
                                start[i]).out]
        IN /\ out[i] = ConcatAll(parts)
           /\ out[i] = Results(i, Len(Leaves(i)))

\* C3 witness: the test's [[0, 1, 2], [10, 11, 12]] (here the second row is
\* 6, 7, 8) read to the end with "add 1".
C3_Witness ==
  /\ depth = 2 /\ mode = "with" /\ proj = "plus1"
  /\ start[1] = << <<0, 1, 2>>, <<6, 7, 8>> >>
  /\ ended[1]
  /\ out[1] = <<1, 2, 3, 7, 8, 9>>

\* C4: fully consuming VecTraversal.with(seq, f) yields exactly n results, the
\* i-th being f(seq[i]) in index order; with the identity projection the
\* result is seq itself.
C4_LeafWith ==
  (depth = 1 /\ mode = "with" /\ ended[1]) =>
    /\ Len(out[1]) = Len(start[1])
    /\ \A j \in 1..Len(start[1]) : out[1][j] = ProjResult(proj, start[1][j])
    /\ proj = "id" => out[1] = start[1]

\* C4 witness: [0, 1, 2] read to the end with the identity.
C4_Witness ==
  /\ depth = 1 /\ mode = "with" /\ proj = "id"
  /\ start[1] = <<0, 1, 2>>
  /\ ended[1]
  /\ out[1] = <<0, 1, 2>>

\* C5: calling with_mut and pulling nothing leaves the source unchanged and
\* calls the projection on nothing, and every pull mutates at most the one
\* target whose result it yields (building an inner iterator when the outer
\* one advances applies the projection to no target).
C5_MutationOnlyOnPull ==
  [][ mode' = "with_mut" =>
        \A i \in DOMAIN travs :
          /\ pulls' = 0 => (src'[i] = start'[i] /\ calls'[i] = <<>> /\ out'[i] = <<>>)
          /\ pulls' = pulls + 1 =>
               LET new == SubSeq(calls'[i], Len(calls[i]) + 1, Len(calls'[i]))
               IN IF Len(out'[i]) = Len(out[i])
                  THEN new = <<>> /\ src'[i] = src[i]
                  ELSE /\ Len(out'[i]) = Len(out[i]) + 1
                       /\ Len(new) = 1
                       /\ src'[i] = Put(src[i], new[1],
                                        ProjStore(proj, At(src[i], new[1]))) ]_vars

\* C5 witness: with_mut was called on a nested source with six leaves and
\* nothing has been pulled.
C5_Witness ==
  /\ depth = 2 /\ mode = "with_mut" /\ phase = "iter" /\ pulls = 0
  /\ start[1] = << <<0, 1, 2>>, <<6, 7, 8>> >>
  /\ src[1] = << <<0, 1, 2>>, <<6, 7, 8>> >>
  /\ it[1] # <<>>

\* C6: over a triply nested sequence, Then(Then(A, B), C) and
\* Then(A, Then(B, C)) fully consumed yield identical result sequences (same
\* length, values and order), for with and for with_mut.
C6_Associative ==
  (depth = 3 /\ (ended[1] \/ ended[2])) =>
    /\ ended[1] /\ ended[2]
    /\ out[1] = out[2]

\* C6 witness: [[[], [6]], [[36]]] read to the end by both associations.
C6_Witness ==
  /\ depth = 3 /\ mode = "with" /\ proj = "plus1"
  /\ start[1] = << << <<>>, <<6>> >>, << <<36>> >> >>
  /\ ended[1] /\ ended[2]
  /\ out[1] = <<7, 37>> /\ out[2] = <<7, 37>>

\* C7: with never changes the source: after any number of pulls the source
\* equals, at every nesting level, its value before the call.
C7_WithLeavesSource ==
  mode = "with" => \A i \in Runs : src[i] = start[i]

\* C7 witness: a nested source partly read with "add 1".
C7_Witness ==
  /\ depth = 2 /\ mode = "with" /\ proj = "plus1"
  /\ start[1] = << <<0, 1>>, <<6>> >>
  /\ pulls = 2 /\ out[1] = <<1, 2>>
  /\ src[1] = << <<0, 1>>, <<6>> >>

\* C8: on a source with no targets (an empty sequence, an empty outer
\* sequence, or only empty inner sequences) the first pull of with and of
\* with_mut reports the end, the projection is never called and the source
\* is unchanged.
C8_NoTargets ==
  \A i \in Runs :
    (mode # "none" /\ Leaves(i) = <<>> /\ pulls >= 1) =>
      /\ ended[i]
      /\ out[i] = <<>>
      /\ calls[i] = <<>>
      /\ src[i] = start[i]

\* C8 witness: with_mut on [[], []] after one pull.
C8_Witness ==
  /\ depth = 2 /\ mode = "with_mut"
  /\ start[1] = << <<>>, <<>> >>
  /\ pulls = 1 /\ ended[1] /\ out[1] = <<>>
  /\ src[1] = << <<>>, <<>> >>

\* C9: after with_mut of a composition of two or three VecTraversal levels
\* (either association) is fully consumed, every leaf of the source holds
\* the projection applied exactly once to its original value, and the
\* results come in the same number and order as with yields on that source.
C9_MutationReachesSource ==
  (depth >= 2 /\ mode = "with_mut") =>
    \A i \in Runs :
      ended[i] =>
        LET read == Collect(TraversalWith(travs[i], <<>>, LeafFn("plus1")), start[i])
            leaves == Leaves(i)
        IN /\ src[i] = ApplyTo(start[i], leaves, Len(leaves), proj)
           /\ calls[i] = leaves
           /\ calls[i] = read.calls
           /\ Len(out[i]) = Len(read.out)
           /\ proj = "plus1_get" => out[i] = read.out

\* C9 witness: [[[0], [6]], [[36]]] mutated to the end by both
\* associations.
C9_Witness ==
  /\ depth = 3 /\ mode = "with_mut" /\ proj = "plus1_get"
  /\ start[1] = << << <<0>>, <<6>> >>, << <<36>> >> >>
  /\ ended[1] /\ ended[2]
  /\ src[1] = << << <<1>>, <<7>> >>, << <<37>> >> >>
  /\ src[2] = << << <<1>>, <<7>> >>, << <<37>> >> >>
  /\ out[1] = <<1, 7, 37>>

\* C10: with is lazy: after exactly k results have been pulled the leaf
\* projection has been called exactly k times, on the first k leaves (never
\* ahead of demand, also at the boundary between two inner sequences), and
\* consuming the whole sequence calls it exactly once per leaf.
C10_LazyWith ==
  mode = "with" =>
    \A i \in Runs :
      LET leaves == Leaves(i)
          k == Min(pulls, Len(leaves))
      IN /\ Len(out[i]) = k
         /\ Len(calls[i]) = Len(out[i])
         /\ calls[i] = SubSeq(leaves, 1, k)
         /\ ended[i] => calls[i] = leaves

\* C10 witness: [[0, 1], [6]] with two results pulled: the iterator stands at
\* the boundary of the inner sequences and 6 has not been projected.
C10_Witness ==
  /\ depth = 2 /\ mode = "with" /\ proj = "plus1"
  /\ start[1] = << <<0, 1>>, <<6>> >>
  /\ pulls = 2
  /\ out[1] = <<1, 2>>
  /\ calls[1] = << <<1, 1>>, <<1, 2>> >>

\* C11: the result sequence is finite with one result per target: on a
\* source with N leaves the first N pulls of with or with_mut each yield a
\* result and every later pull reports the end; the next pull always returns
\* (a result while fewer than N were pulled, the end otherwise), also when it
\* has to skip consecutive empty inner sequences to do so.
C11_FiniteOnePerTarget ==
  mode # "none" =>
    \A i \in Runs :
      LET n == Len(Leaves(i))
      IN /\ Len(out[i]) = Min(pulls, n)
         /\ ended[i] <=> pulls > n
         /\ phase = "iter" =>
              (Len(IterNext(it[i][1], src[i]).item) = 1 <=> pulls < n)

\* C11 witness: a single pull on [[], [], [12]] skipped both empty inner
\* sequences and yielded the one result; the next pull reported the end.
C11_Witness ==
  /\ depth = 2 /\ mode = "with" /\ proj = "plus1"
  /\ start[1] = << <<>>, <<>>, <<12>> >>
  /\ pulls = 2
  /\ out[1] = <<13>>
  /\ ended[1]

\* C12: a traversal value carries no state between invocations: no with or
\* with_mut call, however far its result is consumed, changes the traversal
\* value, and every invocation (also one after earlier, partly consumed
\* invocations) yields what a freshly constructed traversal yields on the
\* source as it then is.
C12_TraversalStateless ==
  /\ travs = Travs(depth)
  /\ phase = "iter" =>
       \A i \in Runs :
         LET fresh == Collect(IF mode = "with"
                              THEN TraversalWith(Travs(depth)[i], <<>>, LeafFn(proj))
                              ELSE TraversalWithMut(Travs(depth)[i], <<>>, LeafFn(proj)),
                              start[i])
         IN /\ Len(out[i]) <= Len(fresh.out)
            /\ out[i] = SubSeq(fresh.out, 1, Len(out[i]))
            /\ ended[i] => (out[i] = fresh.out /\ src[i] = fresh.src)

\* C12 witness: the composed traversal was first used to mutate two of the
\* three leaves of [[0, 1], [6]] and dropped, then invoked again with the
\* identity and read to the end.
C12_Witness ==
  /\ depth = 2 /\ invocations = 2 /\ phase = "iter"
  /\ data0 = << <<0, 1>>, <<6>> >>
  /\ start[1] = << <<1, 2>>, <<6>> >>
  /\ mode = "with" /\ proj = "id"
  /\ ended[1]
  /\ out[1] = <<1, 2, 6>>
  /\ travs = Travs(2)

\* C13: associativity holds for partial mutation: after the same number k
\* of pulls from Then(Then(A, B), C).with_mut and Then(A, Then(B, C)).with_mut
\* on equal triply nested sources, both sources are in the same state (the
\* same leaves mutated) and the same k results were yielded.
C13_AssociativePartial ==
  (depth = 3 /\ mode = "with_mut") =>
    /\ src[1] = src[2]
    /\ out[1] = out[2]
    /\ calls[1] = calls[2]
    /\ ended[1] = ended[2]

\* C13 witness: [[[0, 1]], [[36]]] with two of the three results pulled from
\* both associations.
C13_Witness ==
  /\ depth = 3 /\ mode = "with_mut" /\ proj = "plus1_get"
  /\ start[1] = << << <<0, 1>> >>, << <<36>> >> >>
  /\ start[2] = start[1]
  /\ pulls = 2
  /\ out[1] = <<1, 2>> /\ out[2] = <<1, 2>>
  /\ src[1] = << << <<1, 2>> >>, << <<36>> >> >>
  /\ src[2] = << << <<1, 2>> >>, << <<36>> >> >>

\* C14: once the iterator of with or with_mut has reported the end, every
\* further pull reports the end again, calls the projection on no target and
\* leaves the source unchanged; no target is ever projected a second time.
C14_EndIsFinal ==
  [][ \A i \in DOMAIN travs :
        /\ (phase = "iter" /\ ended[i] /\ pulls' = pulls + 1) =>
             /\ ended'[i]
             /\ out'[i] = out[i]
             /\ calls'[i] = calls[i]
             /\ src'[i] = src[i]
        /\ \A a, b \in 1..Len(calls'[i]) : a # b => calls'[i][a] # calls'[i][b] ]_vars

\* C14 witness: with_mut on [[0], [], [12, 13]] pulled once more after the
\* end was reported: the source is as the three results left it.
C14_Witness ==
  /\ depth = 2 /\ mode = "with_mut" /\ proj = "plus1_get"
  /\ start[1] = << <<0>>, <<>>, <<12, 13>> >>
  /\ pulls = 5 /\ extra = 1 /\ ended[1]
  /\ out[1] = <<1, 13, 14>>
  /\ src[1] = << <<1>>, <<>>, <<13, 14>> >>

\* C15: with_mut of Then(VecTraversal, VecTraversal) never changes the shape
\* of the source: after any number of pulls the outer sequence and every
\* inner sequence have the lengths they had before the call, and an element
\* differs from its original value only by the projection applied to that
\* position.
C15_ShapePreserved ==
  (depth = 2 /\ mode = "with_mut") =>
    /\ Len(src[1]) = Len(start[1])
    /\ \A a \in 1..Len(start[1]) :
         /\ Len(src[1][a]) = Len(start[1][a])
         /\ \A b \in 1..Len(start[1][a]) :
              src[1][a][b] =
                IF \E n \in 1..Len(calls[1]) : calls[1][n] = <<a, b>>
                THEN ProjStore(proj, start[1][a][b])
                ELSE start[1][a][b]

\* C15 witness: [[0, 1], [6]] with one result pulled: only position [0][0]
\* changed and the lengths are 2, 2 and 1 as before.
C15_Witness ==
  /\ depth = 2 /\ mode = "with_mut" /\ proj = "plus1_mut"
  /\ start[1] = << <<0, 1>>, <<6>> >>
  /\ pulls = 1
  /\ calls[1] = << <<1, 1>> >>
  /\ src[1] = << <<1, 1>>, <<6>> >>

====
